---- MODULE Spec2Model ----
(***************************************************************************)
(* Model of vectors.py: the module-level configuration, EmbeddingsManager  *)
(* and its create_embeddings pipeline (exists -> load -> split -> embed    *)
(* and store), together with the text splitter it configures at lines      *)
(* 65-68.  A text is a sequence of one-character strings; a chunk is a     *)
(* text.  The loops of the splitter are written over index windows so that *)
(* the depth of evaluation grows with the number of chunks, not with the   *)
(* number of characters.                                                   *)
(***************************************************************************)
EXTENDS Integers, Sequences, FiniteSets, Bags, TLC

None == "None"

\* ------------------------------------------------------------------------
\* The text splitter: RecursiveCharacterTextSplitter(chunk_size=1000,
\* chunk_overlap=250).split_documents(docs).
\* ------------------------------------------------------------------------
chunk_size == 1000
chunk_overlap == 250

\* The separators the recursive splitter tries, coarsest first:
\* "\n\n", "\n", " ", "".
separators == << <<"\n", "\n">>, <<"\n">>, <<" ">>, <<>> >>

\* Characters str.strip() removes.
Whitespace == {" ", "\n", "\t"}

\* str.strip(): the text between its first and last non-whitespace character.
Strip(text) ==
    LET solid == {i \in 1..Len(text) : text[i] \notin Whitespace}
    IN  IF solid = {} THEN <<>>
        ELSE SubSeq(text,
                    CHOOSE i \in solid : \A j \in 1..(i - 1) : j \notin solid,
                    CHOOSE i \in solid : \A j \in (i + 1)..Len(text) : j \notin solid)

\* str.join, halving the list.
RECURSIVE Join(_, _)
Join(parts, sep) ==
    IF parts = <<>> THEN <<>>
    ELSE IF Len(parts) = 1 THEN parts[1]
    ELSE LET m == Len(parts) \div 2
         IN  Join(SubSeq(parts, 1, m), sep) \o sep \o Join(SubSeq(parts, m + 1, Len(parts)), sep)

\* Running totals: RunningSum(xs)[i] = xs[1] + ... + xs[i].
RECURSIVE RunningSum(_)
RunningSum(xs) ==
    IF Len(xs) <= 1 THEN xs
    ELSE LET m == Len(xs) \div 2
             lo == RunningSum(SubSeq(xs, 1, m))
             hi == RunningSum(SubSeq(xs, m + 1, Len(xs)))
         IN  lo \o [i \in 1..Len(hi) |-> hi[i] + lo[m]]

\* Does sep occur in text at index i?
OccursAt(text, sep, i) ==
    /\ i >= 1
    /\ i + Len(sep) - 1 <= Len(text)
    /\ SubSeq(text, i, i + Len(sep) - 1) = sep

\* Lowest index >= from at which sep occurs in text, 0 when there is none
\* (re.search / the scan of re.split).
Find(text, sep, from) ==
    IF \E i \in from..Len(text) : OccursAt(text, sep, i)
    THEN CHOOSE i \in from..Len(text) :
            /\ OccursAt(text, sep, i)
            /\ \A j \in from..(i - 1) : ~OccursAt(text, sep, j)
    ELSE 0

\* re.split on a captured separator with keep_separator=True: the text is cut
\* in front of every (non-overlapping, leftmost) occurrence of sep, so each
\* piece but the first begins with the separator.
RECURSIVE SplitKeeping(_, _, _)
SplitKeeping(text, sep, first) ==
    LET at == Find(text, sep, IF first THEN 1 ELSE Len(sep) + 1)
    IN  IF at = 0 THEN <<text>>
        ELSE <<SubSeq(text, 1, at - 1)>>
             \o SplitKeeping(SubSeq(text, at, Len(text)), sep, FALSE)

\* _split_text_with_regex: "" cuts the text into characters; empty pieces
\* are dropped.
_split_text_with_regex(text, sep) ==
    LET raw == IF sep = <<>> THEN [i \in 1..Len(text) |-> <<text[i]>>]
               ELSE SplitKeeping(text, sep, TRUE)
    IN  SelectSeq(raw, LAMBDA s : s # <<>>)

\* _join_docs: join, strip, and drop the chunk when nothing is left.
_join_docs(docs, sep) ==
    LET text == Strip(Join(docs, sep))
    IN  IF text = <<>> THEN <<>> ELSE <<text>>

\* The value of `total` in _merge_splits while current_doc = splits[a..b-1];
\* sums is RunningSum of the pieces' lengths.
Total(sums, a, b, sep) ==
    IF b <= a THEN 0
    ELSE sums[b - 1] - (IF a = 1 THEN 0 ELSE sums[a - 1]) + Len(sep) * (b - a - 1)

\* The test that opens a new chunk when piece b arrives at window a..b-1.
Overflows(splits, sums, a, b, sep, size) ==
    Total(sums, a, b, sep) + Len(splits[b]) + (IF b > a THEN Len(sep) ELSE 0) > size

\* Variant of KeepPopping that also drops a window exactly as long as the
\* overlap (> written as >=).
KeepPoppingToBelow(splits, sums, a, b, sep, size, overlap) ==
    \/ Total(sums, a, b, sep) >= overlap /\ Total(sums, a, b, sep) > 0
    \/ /\ Overflows(splits, sums, a, b, sep, size)
       /\ Total(sums, a, b, sep) > 0

\* The condition of the while loop that drops pieces from the front of the
\* window once a chunk has been emitted.
KeepPopping(splits, sums, a, b, sep, size, overlap) ==
    \/ Total(sums, a, b, sep) > overlap
    \/ /\ Overflows(splits, sums, a, b, sep, size)
       /\ Total(sums, a, b, sep) > 0

\* _merge_splits from the point where current_doc = splits[a..from-1] and
\* piece `from` is the next to arrive: pieces are appended until one
\* overflows a non-empty window; the window is emitted, shortened from the
\* front, and the loop goes on.  What is left at the end is the last chunk.
RECURSIVE MergeFrom(_, _, _, _, _, _, _)
MergeFrom(splits, sums, a, from, sep, size, overlap) ==
    LET n == Len(splits)
        Emits(b) == b > a /\ Overflows(splits, sums, a, b, sep, size)
    IN  IF \A b \in from..n : ~Emits(b)
        THEN _join_docs(SubSeq(splits, a, n), sep)
        ELSE LET b == CHOOSE x \in from..n : Emits(x) /\ \A y \in from..(x - 1) : ~Emits(y)
                 a2 == CHOOSE x \in a..b :
                          /\ ~KeepPopping(splits, sums, x, b, sep, size, overlap)
                          /\ \A y \in a..(x - 1) : KeepPopping(splits, sums, y, b, sep, size, overlap)
             IN  _join_docs(SubSeq(splits, a, b - 1), sep)
                 \o MergeFrom(splits, sums, a2, b + 1, sep, size, overlap)

_merge_splits(splits, sep, size, overlap) ==
    MergeFrom(splits, RunningSum([i \in 1..Len(splits) |-> Len(splits[i])]),
              1, 1, sep, size, overlap)

\* Index in seps of the separator _split_text picks: the first that is "" or
\* occurs in the text; 0 when none does (the last one is then used).
PickSeparator(text, seps) ==
    LET hits == {i \in 1..Len(seps) : seps[i] = <<>> \/ Find(text, seps[i], 1) # 0}
    IN  IF hits = {} THEN 0 ELSE CHOOSE i \in hits : \A j \in hits : i <= j

RECURSIVE _split_text(_, _, _, _)
RECURSIVE SplitPieces(_, _, _, _, _)
\* The loop of _split_text over the pieces from index `from` on: pieces
\* shorter than chunk_size collect in _good_splits and are merged (with ""
\* between them, the separators being kept in the pieces); a piece of
\* chunk_size or more is split again with the finer separators, or kept as
\* it is when none is left.
SplitPieces(splits, from, rest, size, overlap) ==
    LET n == Len(splits)
        long == {i \in from..n : ~(Len(splits[i]) < size)}
    IN  IF from > n THEN <<>>
        ELSE IF long = {} THEN _merge_splits(SubSeq(splits, from, n), <<>>, size, overlap)
        ELSE LET k == CHOOSE i \in long : \A j \in long : i <= j
             IN  (IF k > from
                  THEN _merge_splits(SubSeq(splits, from, k - 1), <<>>, size, overlap)
                  ELSE <<>>)
                 \o (IF rest = <<>> THEN <<splits[k]>>
                     ELSE _split_text(splits[k], rest, size, overlap))
                 \o SplitPieces(splits, k + 1, rest, size, overlap)

_split_text(text, seps, size, overlap) ==
    LET k == PickSeparator(text, seps)
        sep == IF k = 0 THEN seps[Len(seps)] ELSE seps[k]
        rest == IF k = 0 \/ seps[k] = <<>> THEN <<>> ELSE SubSeq(seps, k + 1, Len(seps))
    IN  SplitPieces(_split_text_with_regex(text, sep), 1, rest, size, overlap)

split_text(text, size, overlap) == _split_text(text, separators, size, overlap)

\* split_documents: the chunks of every document, in document order.
RECURSIVE split_documents(_, _, _)
split_documents(docs, size, overlap) ==
    IF docs = <<>> THEN <<>>
    ELSE split_text(Head(docs), size, overlap) \o split_documents(Tail(docs), size, overlap)

\* ------------------------------------------------------------------------
\* The world create_embeddings runs in: the file system and loader, the
\* embedding provider, and the vector store.
\* ------------------------------------------------------------------------
Callers == {"c1", "c2"}

Paths == {"missing.pdf", "corrupt.pdf", "scan.pdf", "blank.pdf", "a.pdf", "b.pdf"}

\* os.path.exists(pdf_path)
exists(path) == path # "missing.pdf"

\* Does UnstructuredPDFLoader(path).load() raise?
LoadRaises(path) == path \in {"missing.pdf", "corrupt.pdf"}

\* The page_content of the documents loader.load() returns.
Loaded(path) ==
    CASE path = "a.pdf" -> << <<"a", "1">>, <<"a", " ", "2">> >>
      [] path = "b.pdf" -> << <<"b", "\n", "\n", "1">> >>
      [] path = "blank.pdf" -> << <<" ", "\n", " ">> >>
      [] OTHER -> <<>>

\* Exceptions the collaborators can raise inside Qdrant.from_documents.
EmbeddingFailures == {"EmbeddingError"}
StoreFailures == {"TransportError", "AuthError", "ServerError"}

\* The collection named by COLLECTION_NAME, and the randomly named one
\* from_documents creates for a call when collection_name is None.
Uuid == [c \in Callers |-> IF c = "c1" THEN "uuid-1" ELSE "uuid-2"]
Collections == {"docs"} \cup {Uuid[c] : c \in Callers}

\* What an earlier ingest left in the named collection.
OldChunk == <<"o", "l", "d">>

\* A collection's points, as the bag of their texts (point ids are fresh).
BagOf(seq) ==
    [t \in {seq[i] : i \in DOMAIN seq} |-> Cardinality({i \in DOMAIN seq : seq[i] = t})]

\* ------------------------------------------------------------------------
\* Outcomes of a call.
\* ------------------------------------------------------------------------
NoResult == [outcome |-> "none", type |-> None, msg |-> None, context |-> None]

Success ==
    [outcome |-> "return", type |-> "str",
     msg |-> "Vector DB Successfully Created and Stored in Qdrant Cloud!", context |-> None]

Raise(type, msg, context) ==
    [outcome |-> "raise", type |-> type, msg |-> msg, context |-> context]

\* line 57
SourceNotFound == Raise("FileNotFoundError", "The file does not exist.", None)
\* line 63
EmptySource == Raise("ValueError", "No documents were loaded from the PDF.", None)
\* line 70
EmptyContent == Raise("ValueError", "No text chunks were created from the documents.", None)
\* lines 83-84: any exception e of the try block is re-raised as a
\* ConnectionError; raising inside the handler chains e as its context.
StoreUnavailable(e) == Raise("ConnectionError", "Failed to connect to Qdrant Cloud", e)
\* an exception of loader.load(), which nothing catches
LoadError == Raise("LoadError", "loader.load() failed", None)

VARIABLES
    qdrant_url, qdrant_api_key, collection_name,  \* module level, lines 15-17
    self,          \* the EmbeddingsManager's attributes
    store,         \* collection name -> bag of stored chunk texts
    pc,            \* per caller: position in create_embeddings
    pdf_path, docs, splits,  \* per caller: locals of create_embeddings
    caught,        \* per caller: the exception the try block raised
    result,        \* per caller: outcome of the last call
    calls,         \* per caller: collaborator invocations of the call, in order
    overlapped,    \* per caller: has another call run during the current one
    text, size, overlap, chunks, phase   \* one run of the splitter alone

pipeVars == <<qdrant_url, qdrant_api_key, collection_name, self, store, pc, pdf_path,
              docs, splits, caught, result, calls, overlapped>>
splitVars == <<text, size, overlap, chunks, phase>>
vars == <<pipeVars, splitVars>>

Unbuilt == [qdrant_url |-> None, qdrant_api_key |-> None, collection_name |-> None,
            embeddings |-> None]

\* The collection a call of caller c addresses.
Target(c) == IF self.collection_name = None THEN Uuid[c] ELSE self.collection_name

Idle(c) == pc[c] = "idle"

PipeInit ==
    /\ qdrant_url \in {"https://cluster", None}
    /\ qdrant_api_key \in {"key", None}
    /\ collection_name \in {"docs", None}
    /\ self = Unbuilt
    /\ store = [n \in Collections |-> IF n = "docs" THEN BagOf(<<OldChunk>>) ELSE EmptyBag]
    /\ pc = [c \in Callers |-> "idle"]
    /\ pdf_path = [c \in Callers |-> None]
    /\ docs = [c \in Callers |-> <<>>]
    /\ splits = [c \in Callers |-> <<>>]
    /\ caught = [c \in Callers |-> None]
    /\ result = [c \in Callers |-> NoResult]
    /\ calls = [c \in Callers |-> <<>>]
    /\ overlapped = [c \in Callers |-> FALSE]

SplitIdle ==
    /\ text = <<>>
    /\ size = chunk_size
    /\ overlap = chunk_overlap
    /\ chunks = <<>>
    /\ phase = "unused"

Init == PipeInit /\ SplitIdle

\* EmbeddingsManager.__init__: the defaults are the module-level values; the
\* embedding model is loaded whatever they are.
__init__ ==
    /\ self.embeddings = None
    /\ self' = [qdrant_url |-> qdrant_url, qdrant_api_key |-> qdrant_api_key,
                collection_name |-> collection_name,
                embeddings |-> "HuggingFaceBgeEmbeddings"]
    /\ UNCHANGED <<qdrant_url, qdrant_api_key, collection_name, store, pc, pdf_path, docs,
                   splits, caught, result, calls, overlapped, splitVars>>

\* How a call ends: with a value or an exception.
Finish(c, r) ==
    /\ pc' = [pc EXCEPT ![c] = "idle"]
    /\ result' = [result EXCEPT ![c] = r]
    /\ overlapped' = [overlapped EXCEPT ![c] = FALSE]

Invoke(c, what) == calls' = [calls EXCEPT ![c] = Append(@, what)]

\* A caller enters create_embeddings(path).
Call(c, path) ==
    /\ self.embeddings # None
    /\ Idle(c)
    /\ pc' = [pc EXCEPT ![c] = "exists"]
    /\ pdf_path' = [pdf_path EXCEPT ![c] = path]
    /\ docs' = [docs EXCEPT ![c] = <<>>]
    /\ splits' = [splits EXCEPT ![c] = <<>>]
    /\ caught' = [caught EXCEPT ![c] = None]
    /\ result' = [result EXCEPT ![c] = NoResult]
    /\ calls' = [calls EXCEPT ![c] = <<>>]
    /\ overlapped' = [d \in Callers |->
                        IF d = c THEN \E e \in Callers \ {c} : ~Idle(e)
                        ELSE IF ~Idle(d) THEN TRUE ELSE overlapped[d]]
    /\ UNCHANGED <<qdrant_url, qdrant_api_key, collection_name, self, store, splitVars>>

\* Variant of CheckExists without the guard of line 56.
CheckExistsUnguarded(c) ==
    /\ pc[c] = "exists"
    /\ pc' = [pc EXCEPT ![c] = "load"]
    /\ UNCHANGED <<result, overlapped>>
    /\ UNCHANGED <<qdrant_url, qdrant_api_key, collection_name, self, store, pdf_path, docs,
                   splits, caught, calls, splitVars>>

\* lines 56-57
CheckExists(c) ==
    /\ pc[c] = "exists"
    /\ IF ~exists(pdf_path[c])
       THEN Finish(c, SourceNotFound)
       ELSE /\ pc' = [pc EXCEPT ![c] = "load"]
            /\ UNCHANGED <<result, overlapped>>
    /\ UNCHANGED <<qdrant_url, qdrant_api_key, collection_name, self, store, pdf_path, docs,
                   splits, caught, calls, splitVars>>

\* Variant of Load without the guard of line 62.
LoadUnchecked(c) ==
    /\ pc[c] = "load"
    /\ Invoke(c, "loader.load")
    /\ IF LoadRaises(pdf_path[c])
       THEN Finish(c, LoadError) /\ UNCHANGED docs
       ELSE /\ docs' = [docs EXCEPT ![c] = Loaded(pdf_path[c])]
            /\ pc' = [pc EXCEPT ![c] = "split"]
            /\ UNCHANGED <<result, overlapped>>
    /\ UNCHANGED <<qdrant_url, qdrant_api_key, collection_name, self, store, pdf_path,
                   splits, caught, splitVars>>

\* lines 60-63
Load(c) ==
    /\ pc[c] = "load"
    /\ Invoke(c, "loader.load")
    /\ IF LoadRaises(pdf_path[c])
       THEN Finish(c, LoadError) /\ UNCHANGED docs
       ELSE /\ docs' = [docs EXCEPT ![c] = Loaded(pdf_path[c])]
            /\ IF Loaded(pdf_path[c]) = <<>>
               THEN Finish(c, EmptySource)
               ELSE /\ pc' = [pc EXCEPT ![c] = "split"]
                    /\ UNCHANGED <<result, overlapped>>
    /\ UNCHANGED <<qdrant_url, qdrant_api_key, collection_name, self, store, pdf_path,
                   splits, caught, splitVars>>

\* Variant of Split without the guard of line 69.
SplitUnchecked(c) ==
    /\ pc[c] = "split"
    /\ Invoke(c, "splitter.split_documents")
    /\ splits' = [splits EXCEPT ![c] = split_documents(docs[c], chunk_size, chunk_overlap)]
    /\ pc' = [pc EXCEPT ![c] = "probe"]
    /\ UNCHANGED <<result, overlapped>>
    /\ UNCHANGED <<qdrant_url, qdrant_api_key, collection_name, self, store, pdf_path, docs,
                   caught, splitVars>>

\* lines 65-70
Split(c) ==
    /\ pc[c] = "split"
    /\ Invoke(c, "splitter.split_documents")
    /\ LET made == split_documents(docs[c], chunk_size, chunk_overlap)
       IN  /\ splits' = [splits EXCEPT ![c] = made]
           /\ IF made = <<>>
              THEN Finish(c, EmptyContent)
              ELSE /\ pc' = [pc EXCEPT ![c] = "probe"]
                   /\ UNCHANGED <<result, overlapped>>
    /\ UNCHANGED <<qdrant_url, qdrant_api_key, collection_name, self, store, pdf_path, docs,
                   caught, splitVars>>

\* Variant of Except that lets the exception through (a bare raise).
ExceptReraise(c, e) ==
    /\ caught' = [caught EXCEPT ![c] = e]
    /\ Finish(c, Raise(e, "collaborator failure", None))

\* lines 83-84: the handler of the try block around Qdrant.from_documents.
Except(c, e) ==
    /\ caught' = [caught EXCEPT ![c] = e]
    /\ Finish(c, StoreUnavailable(e))

\* A step of from_documents that does not end the call.
Proceed(c, next) ==
    /\ pc' = [pc EXCEPT ![c] = next]
    /\ UNCHANGED <<caught, result, overlapped>>

\* lines 74-82, Qdrant.from_documents(splits, self.embeddings, ...,
\* force_recreate=True), as the collaborators see it: one text is embedded to
\* learn the vector size, the collection is deleted and created anew, the
\* texts are embedded, and the points are upserted.  Each of the four can
\* raise.  The documents of Paths give fewer chunks than the client sends in
\* one batch, so the texts of a call are embedded and upserted in one round.
Probe(c) ==
    /\ pc[c] = "probe"
    /\ Invoke(c, "embeddings.embed_documents")
    /\ \/ Proceed(c, "recreate")
       \/ \E e \in EmbeddingFailures : Except(c, e)
    /\ UNCHANGED <<qdrant_url, qdrant_api_key, collection_name, self, store, pdf_path, docs,
                   splits, splitVars>>

\* Variant of Recreate with force_recreate=False: an existing collection is
\* kept as it is.
RecreateKeeping(c) ==
    /\ pc[c] = "recreate"
    /\ Invoke(c, "store.recreate_collection")
    /\ \/ /\ UNCHANGED store
          /\ Proceed(c, "embed")
       \/ /\ \E e \in StoreFailures : Except(c, e)
          /\ UNCHANGED store
    /\ UNCHANGED <<qdrant_url, qdrant_api_key, collection_name, self, pdf_path, docs,
                   splits, splitVars>>

Recreate(c) ==
    /\ pc[c] = "recreate"
    /\ Invoke(c, "store.recreate_collection")
    /\ \/ /\ store' = [store EXCEPT ![Target(c)] = EmptyBag]
          /\ Proceed(c, "embed")
       \/ /\ \E e \in StoreFailures : Except(c, e)
          /\ UNCHANGED store
    /\ UNCHANGED <<qdrant_url, qdrant_api_key, collection_name, self, pdf_path, docs,
                   splits, splitVars>>

Embed(c) ==
    /\ pc[c] = "embed"
    /\ Invoke(c, "embeddings.embed_documents")
    /\ \/ Proceed(c, "upsert")
       \/ \E e \in EmbeddingFailures : Except(c, e)
    /\ UNCHANGED <<qdrant_url, qdrant_api_key, collection_name, self, store, pdf_path, docs,
                   splits, splitVars>>

\* Variant of Upsert that stores the first chunk only and still returns.
UpsertFirstOnly(c) ==
    /\ pc[c] = "upsert"
    /\ Invoke(c, "store.upsert")
    /\ \/ /\ store' = [store EXCEPT ![Target(c)] = @ (+) BagOf(<<splits[c][1]>>)]
          /\ Finish(c, Success)
          /\ UNCHANGED caught
       \/ /\ \E e \in StoreFailures : Except(c, e)
          /\ UNCHANGED store
    /\ UNCHANGED <<qdrant_url, qdrant_api_key, collection_name, self, pdf_path, docs,
                   splits, splitVars>>

\* The upsert, and on its success the return of line 86.
Upsert(c) ==
    /\ pc[c] = "upsert"
    /\ Invoke(c, "store.upsert")
    /\ \/ /\ store' = [store EXCEPT ![Target(c)] = @ (+) BagOf(splits[c])]
          /\ Finish(c, Success)
          /\ UNCHANGED caught
       \/ /\ \E e \in StoreFailures : Except(c, e)
          /\ UNCHANGED store
    /\ UNCHANGED <<qdrant_url, qdrant_api_key, collection_name, self, pdf_path, docs,
                   splits, splitVars>>

Step(c) ==
    \/ CheckExists(c)
    \/ Load(c)
    \/ Split(c)
    \/ Probe(c)
    \/ Recreate(c)
    \/ Embed(c)
    \/ Upsert(c)

\* Callers may be inside create_embeddings at the same time.
Next ==
    \/ __init__
    \/ \E c \in Callers, path \in Paths : Call(c, path)
    \/ \E c \in Callers : Step(c)

Spec == Init /\ [][Next]_vars

\* Callers that serialize ingestion: a call begins only when no other runs.
SerialCall(c, path) ==
    /\ \A d \in Callers : Idle(d)
    /\ Call(c, path)

SerialNext ==
    \/ __init__
    \/ \E c \in Callers, path \in Paths : SerialCall(c, path)
    \/ \E c \in Callers : Step(c)

SerialSpec == Init /\ [][SerialNext]_vars

\* ------------------------------------------------------------------------
\* The splitter on its own: one document, any valid size and overlap.
\* ------------------------------------------------------------------------
MaxLen == 4
MaxSize == 3

Alphabet == {"a", "b", " ", "\n"}

\* All texts over Alphabet of at most n characters.
RECURSIVE TextsUpTo(_)
TextsUpTo(n) ==
    IF n = 0 THEN {<<>>}
    ELSE LET shorter == TextsUpTo(n - 1)
         IN  shorter \cup {Append(t, ch) : t \in {u \in shorter : Len(u) = n - 1},
                                            ch \in Alphabet}

\* The 2400-character document of the worked example.
Example == [i \in 1..2400 |-> "a"]

PipeIdle ==
    /\ qdrant_url = "https://cluster"
    /\ qdrant_api_key = "key"
    /\ collection_name = "docs"
    /\ self = Unbuilt
    /\ store = [n \in Collections |-> EmptyBag]
    /\ pc = [c \in Callers |-> "idle"]
    /\ pdf_path = [c \in Callers |-> None]
    /\ docs = [c \in Callers |-> <<>>]
    /\ splits = [c \in Callers |-> <<>>]
    /\ caught = [c \in Callers |-> None]
    /\ result = [c \in Callers |-> NoResult]
    /\ calls = [c \in Callers |-> <<>>]
    /\ overlapped = [c \in Callers |-> FALSE]

SplitInit ==
    /\ PipeIdle
    /\ \/ /\ text \in TextsUpTo(MaxLen)
          /\ size \in 1..MaxSize
          /\ overlap \in 0..(size - 1)
       \/ /\ text = Example
          /\ size = chunk_size
          /\ overlap = chunk_overlap
    /\ chunks = <<>>
    /\ phase = "given"

\* RecursiveCharacterTextSplitter(chunk_size=size, chunk_overlap=overlap)
\* .split_documents([Document(text)])
SplitOne ==
    /\ phase = "given"
    /\ chunks' = split_documents(<<text>>, size, overlap)
    /\ phase' = "split"
    /\ UNCHANGED <<text, size, overlap, pipeVars>>

SplitNext == SplitOne

SplitSpec == SplitInit /\ [][SplitNext]_vars

\* ------------------------------------------------------------------------
\* Properties.
\* ------------------------------------------------------------------------
Count(log, what) == Cardinality({i \in DOMAIN log : log[i] = what})

Failed(c) == Idle(c) /\ result[c].outcome = "raise"

\* Did the current or last call of c delete and recreate its collection?
\* (A recreate that raises ends the call, so it is the last entry.)
Recreated(c) ==
    \E i \in 1..(Len(calls[c]) - 1) : calls[c][i] = "store.recreate_collection"

Quiet == \A c \in Callers : Idle(c)

\* C1: a call on a path that does not exist ends with FileNotFoundError
\* (SourceNotFound) and has invoked no collaborator: neither the loader, the
\* splitter, the embedding provider nor the store.
C1_MissingSourceFailsUntouched ==
    \A c \in Callers :
        (pdf_path[c] # None /\ ~exists(pdf_path[c]) /\ pc[c] # "exists")
        => (Idle(c) /\ result[c] = SourceNotFound /\ calls[c] = <<>>)

C1_Witness ==
    \E c \in Callers :
        pdf_path[c] = "missing.pdf" /\ Idle(c) /\ result[c] = SourceNotFound

\* C2: with serialized calls, the step on which a call returns success leaves
\* the collection it addresses holding exactly the chunks of that call,
\* whatever it held before.
C2_SuccessReplacesCollection ==
    [][\A c \in Callers :
          (result[c] # Success /\ result'[c] = Success)
          => store'[Target(c)] = BagOf(splits[c])]_vars

\* Two serialized successful ingests of different sources: only the later
\* one's chunks are left.
C2_Witness ==
    \E c, d \in Callers :
        /\ Quiet
        /\ self.collection_name = "docs"
        /\ pdf_path[c] = "a.pdf" /\ result[c] = Success
        /\ pdf_path[d] = "b.pdf" /\ result[d] = Success
        /\ store["docs"] = BagOf(splits[d])
        /\ store["docs"] # BagOf(splits[c])

\* C3: ingest is all-or-nothing: a call that fails has applied nothing to the
\* collection named by COLLECTION_NAME, so it has not deleted and recreated
\* it.
C3_AllOrNothing ==
    \A c \in Callers :
        (Failed(c) /\ self.collection_name # None) => ~Recreated(c)

\* C4: under concurrent calls, a call that no other call overlapped leaves, on
\* the step it returns success, exactly its own chunks in the collection; the
\* witness is the interleaving of two overlapping calls after which both have
\* returned success and the collection equals neither call's chunks.
C4_SerializedCallsReplace ==
    [][\A c \in Callers :
          (result[c] # Success /\ result'[c] = Success /\ ~overlapped[c])
          => store'[Target(c)] = BagOf(splits[c])]_vars

C4_Witness ==
    \E c, d \in Callers :
        /\ Quiet
        /\ self.collection_name = "docs"
        /\ pdf_path[c] = "a.pdf" /\ result[c] = Success
        /\ pdf_path[d] = "b.pdf" /\ result[d] = Success
        /\ store["docs"] # BagOf(splits[c])
        /\ store["docs"] # BagOf(splits[d])

\* C5: a failure of the embedding provider surfaces as EmbeddingError, and
\* ConnectionError (StoreUnavailable) is raised for store failures only.
C5_EmbeddingErrorPropagates ==
    \A c \in Callers :
        /\ (Idle(c) /\ caught[c] \in EmbeddingFailures) => result[c].type = "EmbeddingError"
        /\ (Idle(c) /\ result[c].type = "ConnectionError") => caught[c] \in StoreFailures

\* C6: a failure raised by the store ends the call with ConnectionError
\* (StoreUnavailable) carrying that failure as its context, never with
\* another error or with success, and the failed store operation was the
\* call's last collaborator invocation and was made once.
C6_StoreFailureWrapped ==
    \A c \in Callers :
        caught[c] \in StoreFailures
        => /\ Idle(c)
           /\ result[c] = StoreUnavailable(caught[c])
           /\ calls[c][Len(calls[c])] \in {"store.recreate_collection", "store.upsert"}
           /\ Count(calls[c], "store.recreate_collection") = 1
           /\ Count(calls[c], "store.upsert") <= 1

C6_Witness ==
    \E c \in Callers :
        /\ caught[c] = "AuthError"
        /\ calls[c][Len(calls[c])] = "store.upsert"
        /\ result[c].type = "ConnectionError"
        /\ result[c].context = "AuthError"

\* C7: when the store URL, the API key or the collection name is absent, no
\* I/O takes place: the embedding model is not loaded and no call reads a
\* file or reaches the store.
C7_AbsentConfigRejected ==
    (qdrant_url = None \/ qdrant_api_key = None \/ collection_name = None)
    => /\ self.embeddings = None
       /\ \A c \in Callers : calls[c] = <<>>

\* C8: a call on an existing source whose load returns no documents ends
\* with ValueError "No documents were loaded" (EmptySource), having invoked
\* the loader and nothing else.
C8_EmptyLoadFails ==
    \A c \in Callers :
        (/\ pdf_path[c] # None
         /\ exists(pdf_path[c])
         /\ ~LoadRaises(pdf_path[c])
         /\ Loaded(pdf_path[c]) = <<>>
         /\ pc[c] \notin {"exists", "load"})
        => (Idle(c) /\ result[c] = EmptySource /\ calls[c] = <<"loader.load">>)

C8_Witness ==
    \E c \in Callers :
        pdf_path[c] = "scan.pdf" /\ Idle(c) /\ result[c] = EmptySource

\* C9: a call whose documents are not empty but split into no chunk ends with
\* ValueError "No text chunks were created" (EmptyContent), having invoked
\* the loader and the splitter and nothing else.
C9_EmptySplitFails ==
    \A c \in Callers :
        (/\ docs[c] # <<>>
         /\ split_documents(docs[c], chunk_size, chunk_overlap) = <<>>
         /\ pc[c] \notin {"exists", "load", "split"})
        => /\ Idle(c)
           /\ result[c] = EmptyContent
           /\ calls[c] = <<"loader.load", "splitter.split_documents">>

C9_Witness ==
    \E c \in Callers :
        /\ pdf_path[c] = "blank.pdf"
        /\ docs[c] # <<>>
        /\ Idle(c)
        /\ result[c] = EmptyContent

\* Chunk i is the text from offset (i-1)*(size-overlap) on, no chunk is longer
\* than size, each chunk reaches the start of the next, and the last one ends
\* where the text ends.
StrideCover(t, cs, sz, ov) ==
    LET stride == sz - ov
        start(i) == (i - 1) * stride
    IN  /\ Len(cs) >= 1
        /\ \A i \in 1..Len(cs) :
              /\ Len(cs[i]) <= sz
              /\ cs[i] = SubSeq(t, start(i) + 1, start(i) + Len(cs[i]))
              /\ i < Len(cs) => start(i) + Len(cs[i]) >= start(i + 1)
        /\ start(Len(cs)) + Len(cs[Len(cs)]) = Len(t)

Lengths(cs) == [i \in 1..Len(cs) |-> Len(cs[i])]

IsExample == text = Example /\ size = chunk_size /\ overlap = chunk_overlap

====
